---- MODULE Spec2Model ----
(***************************************************************************)
(* The offline transaction executor of packages/offline-transactions:      *)
(* OfflineExecutor (coordinator), TransactionExecutor (drain loop),        *)
(* KeyScheduler (pending list), OutboxManager (durable queue) and the       *)
(* waiter registry, for several instances that share one storage and one    *)
(* leader election.                                                         *)
(*                                                                          *)
(* Granularity: JavaScript runs each continuation to its next await, so a   *)
(* step of the model is one such run.  The awaits are the storage calls of  *)
(* the Outbox, the mutation function and requestLeadership.  A storage       *)
(* operation takes effect when it is issued and its promise settles in a     *)
(* later step.                                                              *)
(***************************************************************************)
EXTENDS Integers, Sequences, FiniteSets, TLC

\* ------------------------------------------------------------------ bounds
Inst == {"A", "B"}
TxIds == {"t1", "t2"}
\* Draft ids are random UUIDs: the drafts are named in the order of their commit.
NextDraft(ids) == IF "t1" \in ids THEN "t1" ELSE "t2"
ClearCalls == {"c1"}  \* the clearOutbox calls made in one run
MaxFailures == 1      \* mutation-function failures injected in one run
MaxHandovers == 1     \* leadership losses in one run
MaxTick == 1          \* the clock advances by single milliseconds up to here
MaxAttempts == 12     \* failures injected in the retry-bound specification
MaxCreated == 2       \* deferreds made for one id in the registry specification
MaxNotified == 1      \* connectivity notifications delivered to one instance
MaxCreatedAt == 1     \* createdAt of the entries written in the getAll specification

\* ------------------------------------------------------- program constants
MaxRetries == 10
MaxConcurrency == 3
BaseDelay == 1000
MaxDelay == 60000
Version == 1

None == "none"
NoTimer == -1
Undefined == "undefined"
Values == {"ok1"}
MutationFns == {"m"}
NoError == [name |-> "", message |-> ""]
NonRetriable == [name |-> "NonRetriableError", message |-> "bad input"]
Transient == [name |-> "Error", message |-> "boom"]
UnknownFn == [name |-> "NonRetriableError", message |-> "Unknown mutation function"]
Errors == {NonRetriable, Transient}
\* What a storage call that fails throws.
StorageError == [name |-> "Error", message |-> "storage failed"]

Min(S) == CHOOSE x \in S : \A y \in S : x <= y
Max2(a, b) == IF a >= b THEN a ELSE b
Min2(a, b) == IF a <= b THEN a ELSE b
RECURSIVE Pow2(_)
Pow2(n) == IF n = 0 THEN 1 ELSE 2 * Pow2(n - 1)

\* ------------------------------------------------------------ transactions
IdemKey(id) == <<"key", id>>

\* OfflineTransaction.commit: the record handed to persistTransaction.
NewTransaction(id, t) ==
  [id |-> id, mutationFnName |-> "m", mutations |-> <<id>>, keys |-> {id},
   idempotencyKey |-> IdemKey(id), createdAt |-> t, retryCount |-> 0,
   nextAttemptAt |-> t, lastError |-> NoError, metadata |-> "meta",
   version |-> Version]

NoTx == NewTransaction(None, 0)

\* ------------------------------------------------------------ retry policy
ShouldRetry(error, retryCount) ==
  ~(error.name = "NonRetriableError" \/ retryCount >= MaxRetries)

\* jitter disabled (config.jitter = false)
CalculateDelay(retryCount) ==
  Min2(MaxDelay, BaseDelay * Pow2(retryCount))

\* -------------------------------------------------------------- serializer
Serialize(tx) == [tx EXCEPT !.createdAt = <<"iso", tx.createdAt>>]
ValidEnvelope(env) == env.version = Version
Deserialize(env) == [env EXCEPT !.createdAt = env.createdAt[2]]

\* ------------------------------------------------------------ KeyScheduler
RECURSIVE InsertSorted(_, _)
InsertSorted(sorted, tx) ==
  IF sorted = <<>> THEN <<tx>>
  ELSE IF sorted[Len(sorted)].createdAt <= tx.createdAt THEN Append(sorted, tx)
  ELSE Append(InsertSorted(SubSeq(sorted, 1, Len(sorted) - 1), tx),
              sorted[Len(sorted)])

\* Array.prototype.sort by createdAt: a stable sort.
RECURSIVE SortByCreatedAt(_)
SortByCreatedAt(seq) ==
  IF seq = <<>> THEN <<>>
  ELSE InsertSorted(SortByCreatedAt(SubSeq(seq, 1, Len(seq) - 1)), seq[Len(seq)])

FindIndex(seq, id) ==
  LET hits == {k \in 1..Len(seq) : seq[k].id = id}
  IN IF hits = {} THEN 0 ELSE Min(hits)

Splice(seq, k) == SubSeq(seq, 1, k - 1) \o SubSeq(seq, k + 1, Len(seq))

IsReadyToRun(tx, t) == t >= tx.nextAttemptAt


RemoveTransaction(pending, tx) ==
  LET index == FindIndex(pending, tx.id)
  IN IF index >= 1 THEN Splice(pending, index) ELSE pending

\* ------------------------------------------------------------------- state
VARIABLES
  now,                         \* Date.now()
  storage,                     \* the shared StorageAdapter: id -> envelope
  leader,                      \* the instance the leader election has granted
  initialize,                  \* initialize(): "requesting" | "done"
  isLeaderState,
  pendingTransactions,         \* KeyScheduler.pendingTransactions
  isRunning,                   \* KeyScheduler.isRunning
  isExecuting,                 \* TransactionExecutor.isExecuting
  retryTimer,                  \* the time the armed wake timer fires, or NoTimer
  armedTimers,                 \* setTimeout timers neither fired nor cleared
  drain,                       \* where the in-flight runExecution is suspended
  persisting,                  \* persistTransaction calls awaiting outbox.add
  loading,                     \* loadPendingTransactions calls awaiting getAll
  clearing,                    \* clearOutbox call awaiting the storage
  pendingTransactionPromises,  \* ids with a registered deferred
  outcome,                     \* what the caller's promise of an id settled to
  drafts,                      \* drafts not committed yet
  clearCalls,                  \* clearOutbox calls not made yet
  disposed,                    \* dispose() has been called on the instance
  beforeRetry,                 \* config.beforeRetry: the ids it keeps
  removing,                    \* loadPendingTransactions calls awaiting removeMany
  created,                     \* deferreds created so far for an id
  unknownCalls,                \* calls of config.onUnknownMutationFn for an id
  notified,                    \* connectivity notifications delivered to the instance
  persistThrew,                \* what persistTransaction threw to the commit of an id
  addThrowing,                 \* persistTransaction calls awaiting an outbox.add that throws
  peeked,                      \* the last peekOutbox: the keys and entries read, the result
  outboxCall,                  \* the last add or update made on the Outbox alone
  drainPc,                     \* the await each instance's drain is suspended at
  inflight,                    \* mutation-function calls that have not returned
  keysSeen,                    \* idempotency keys the calls of an id were given
  succeeded,                   \* ids whose call returned successfully here
  returned,                    \* the value that call returned
  permanent,                   \* ids whose call failed with a NonRetriable error
  exhausted,                   \* ids whose call failed at retryCount = MaxRetries
  viaPersist,                  \* ids scheduled by persistTransaction's execute
  nonLeaderPersist,            \* ids persisted while the instance was not leader
  lostPending,                 \* ids persisted as leader, unfinished at a loss of leadership
  dropped,                     \* ids a replay of the instance has dropped (beforeRetry)
  failures,                    \* failures injected so far
  handovers                    \* leadership losses so far

exVars == <<pendingTransactions, isRunning, isExecuting, retryTimer,
            armedTimers, drain,
            pendingTransactionPromises, outcome, inflight, viaPersist,
            storage, keysSeen, created, unknownCalls, drainPc>>
obVars == <<notified, persistThrew, addThrowing, peeked, outboxCall>>
envVars == <<disposed, beforeRetry, obVars>>
coVars == <<leader, initialize, isLeaderState, persisting, loading, removing,
            clearing, drafts, clearCalls, envVars>>
ghVars == <<succeeded, returned, permanent, exhausted, nonLeaderPersist,
            lostPending, dropped,
            failures, handovers>>
vars == <<now, exVars, coVars, ghVars>>

IdleDrain ==
  [pc |-> "idle", tx |-> NoTx, error |-> NoError, result |-> Undefined,
   updated |-> NoTx, found |-> FALSE, existing |-> NoTx]
IdleClear == [pc |-> "idle", keys |-> {}]
NotPeeked == [keys |-> <<>>, store |-> <<>>, result |-> <<>>]
NoCall ==
  [pc |-> "idle", op |-> "none", id |-> None, arg |-> <<>>, found |-> FALSE,
   existing |-> NoTx, before |-> <<>>, after |-> <<>>, threw |-> NoError]
NoOutcome == [kind |-> "none", value |-> Undefined, error |-> NoError]
Waiting == [kind |-> "waiting", value |-> Undefined, error |-> NoError]
Resolved(v) == [kind |-> "resolved", value |-> v, error |-> NoError]
Rejected(e) == [kind |-> "rejected", value |-> Undefined, error |-> e]

\* The executor of instance i with the storage it works on, as one record: the
\* operators below are the methods, from record to record.
S(i) ==
  [pendingTransactions |-> pendingTransactions[i], isRunning |-> isRunning[i],
   isExecuting |-> isExecuting[i], retryTimer |-> retryTimer[i],
   armedTimers |-> armedTimers[i],
   drain |-> drain[i], promises |-> pendingTransactionPromises[i],
   outcome |-> outcome[i], inflight |-> inflight[i],
   viaPersist |-> viaPersist[i], storage |-> storage, keysSeen |-> keysSeen,
   created |-> created[i], unknownCalls |-> unknownCalls[i]]

Apply(i, s) ==
  /\ pendingTransactions' = [pendingTransactions EXCEPT ![i] = s.pendingTransactions]
  /\ isRunning' = [isRunning EXCEPT ![i] = s.isRunning]
  /\ isExecuting' = [isExecuting EXCEPT ![i] = s.isExecuting]
  /\ retryTimer' = [retryTimer EXCEPT ![i] = s.retryTimer]
  /\ armedTimers' = [armedTimers EXCEPT ![i] = s.armedTimers]
  /\ drain' = [drain EXCEPT ![i] = s.drain]
  /\ pendingTransactionPromises' = [pendingTransactionPromises EXCEPT ![i] = s.promises]
  /\ outcome' = [outcome EXCEPT ![i] = s.outcome]
  /\ inflight' = [inflight EXCEPT ![i] = s.inflight]
  /\ viaPersist' = [viaPersist EXCEPT ![i] = s.viaPersist]
  /\ storage' = s.storage
  /\ keysSeen' = s.keysSeen
  /\ created' = [created EXCEPT ![i] = s.created]
  /\ unknownCalls' = [unknownCalls EXCEPT ![i] = s.unknownCalls]
  /\ drainPc' = [drainPc EXCEPT ![i] = s.drain.pc]

\* ----------------------------------------------------------- OutboxManager
OutboxAdd(s, tx) ==
  [s EXCEPT !.storage = (tx.id :> Serialize(tx)) @@ s.storage]

OutboxRemove(s, id) ==
  [s EXCEPT !.storage = [k \in DOMAIN s.storage \ {id} |-> s.storage[k]]]

RECURSIVE OutboxRemoveMany(_, _)
OutboxRemoveMany(s, txs) ==
  IF txs = <<>> THEN s
  ELSE OutboxRemoveMany(OutboxRemove(s, Head(txs).id), Tail(txs))

OutboxGet(store, id) ==
  IF id \in DOMAIN store /\ ValidEnvelope(store[id])
  THEN [found |-> TRUE, tx |-> Deserialize(store[id])]
  ELSE [found |-> FALSE, tx |-> NoTx]

RECURSIVE KeysOf(_)
KeysOf(ids) ==
  IF ids = {} THEN <<>>
  ELSE LET k == CHOOSE x \in ids : TRUE IN <<k>> \o KeysOf(ids \ {k})

RECURSIVE ReadAll(_, _)
ReadAll(store, keys) ==
  IF keys = <<>> THEN <<>>
  ELSE LET got == OutboxGet(store, Head(keys))
       IN (IF got.found THEN <<got.tx>> ELSE <<>>) \o ReadAll(store, Tail(keys))

OutboxGetAll(store) == SortByCreatedAt(ReadAll(store, KeysOf(DOMAIN store)))

\* getStorageKey: a storage key is told here as <<prefix, rest>>.
KeyPrefix == "tx:"
GetStorageKey(id) == <<KeyPrefix, id>>

\* The ids of the keys that start with the prefix, in the order of `keys`.
RECURSIVE TransactionKeys(_)
TransactionKeys(keys) ==
  IF keys = <<>> THEN <<>>
  ELSE (IF Head(keys)[1] = KeyPrefix THEN <<Head(keys)[2]>> ELSE <<>>)
       \o TransactionKeys(Tail(keys))

\* A getAll that would return the entries in the order it read them.
GetAllUnsorted(keys, store) == ReadAll(store, TransactionKeys(keys))

\* getAll, given what storage.keys() returned, in the order it returned it.
GetAll(keys, store) == SortByCreatedAt(ReadAll(store, TransactionKeys(keys)))

\* { ...existing, ...updates }
Merge(existing, updates) ==
  [f \in DOMAIN existing \cup DOMAIN updates |->
     IF f \in DOMAIN updates THEN updates[f] ELSE existing[f]]

NotFound == [name |-> "Error", message |-> "not found"]

\* An update that would write the patch also when get returned null.
OutboxUpdateUpserts(s, found, existing, updates) ==
  OutboxAdd(s, Merge(existing, updates))

\* update after `await this.get(id)`: the write, unless get returned null.
OutboxUpdate(s, found, existing, updates) ==
  IF found THEN OutboxAdd(s, Merge(existing, updates)) ELSE s

\* ------------------------------------------------------------ KeyScheduler
\* A schedule that would append and not sort.
ScheduleUnsorted(s, tx) ==
  [s EXCEPT !.pendingTransactions = Append(@, tx)]

Schedule(s, tx) ==
  [s EXCEPT !.pendingTransactions = SortByCreatedAt(Append(@, tx))]

\* A getNextBatch that would pick the last ready transaction, not the first.
GetNextBatchLastReady(s, maxConcurrency, t) ==
  IF s.isRunning \/ Len(s.pendingTransactions) = 0 THEN <<>>
  ELSE LET ready == {k \in 1..Len(s.pendingTransactions) :
                       IsReadyToRun(s.pendingTransactions[k], t)}
       IN IF ready = {} THEN <<>>
          ELSE <<s.pendingTransactions[CHOOSE k \in ready : \A j \in ready : j <= k]>>

\* A getNextBatch that would return up to maxConcurrency ready transactions.
GetNextBatchUpTo(s, maxConcurrency, t) ==
  IF s.isRunning \/ Len(s.pendingTransactions) = 0 THEN <<>>
  ELSE LET ready == SelectSeq(s.pendingTransactions,
                              LAMBDA tx : IsReadyToRun(tx, t))
       IN SubSeq(ready, 1, Min2(maxConcurrency, Len(ready)))

\* getNextBatch(_maxConcurrency): the parameter is not used.
GetNextBatch(s, maxConcurrency, t) ==
  IF s.isRunning \/ Len(s.pendingTransactions) = 0 THEN <<>>
  ELSE LET ready == {k \in 1..Len(s.pendingTransactions) :
                       IsReadyToRun(s.pendingTransactions[k], t)}
       IN IF ready = {} THEN <<>> ELSE <<s.pendingTransactions[Min(ready)]>>

MarkStarted(s, tx) == [s EXCEPT !.isRunning = TRUE]

\* A markCompleted that would leave the transaction in the pending list.
MarkCompletedKeeps(s, tx) == [s EXCEPT !.isRunning = FALSE]

MarkCompleted(s, tx) ==
  [s EXCEPT !.pendingTransactions = RemoveTransaction(@, tx),
            !.isRunning = FALSE]

MarkFailed(s, tx) == [s EXCEPT !.isRunning = FALSE]

UpdateTransaction(s, tx) ==
  LET index == FindIndex(s.pendingTransactions, tx.id)
  IN IF index >= 1
     THEN [s EXCEPT !.pendingTransactions =
             SortByCreatedAt([@ EXCEPT ![index] = tx])]
     ELSE s

RECURSIVE ReplaceEach(_, _)
ReplaceEach(pending, updatedTransactions) ==
  IF updatedTransactions = <<>> THEN pending
  ELSE LET updatedTx == Head(updatedTransactions)
           index == FindIndex(pending, updatedTx.id)
       IN ReplaceEach(IF index >= 1 THEN [pending EXCEPT ![index] = updatedTx]
                      ELSE pending,
                      Tail(updatedTransactions))

UpdateTransactions(s, updatedTransactions) ==
  [s EXCEPT !.pendingTransactions =
     SortByCreatedAt(ReplaceEach(@, updatedTransactions))]

SchedulerClear(s) ==
  [s EXCEPT !.pendingTransactions = <<>>, !.isRunning = FALSE]

\* ------------------------------------------------------- waiter registry
\* A waitForTransactionCompletion that would make a new deferred at every call.
WaitForTransactionCompletionAlwaysNew(s, id) ==
  [s EXCEPT !.promises = @ \cup {id}, !.outcome[id] = Waiting,
            !.created[id] = @ + 1]

WaitForTransactionCompletion(s, id) ==
  IF id \in s.promises THEN s
  ELSE [s EXCEPT !.promises = @ \cup {id}, !.outcome[id] = Waiting,
                 !.created[id] = @ + 1]

ResolveTransaction(s, id, result) ==
  IF id \in s.promises
  THEN [s EXCEPT !.promises = @ \ {id}, !.outcome[id] = Resolved(result)]
  ELSE s

\* A rejectTransaction that would leave the waiter pending.
RejectTransactionIgnored(s, id, error) == s

RejectTransaction(s, id, error) ==
  IF id \in s.promises
  THEN [s EXCEPT !.promises = @ \ {id}, !.outcome[id] = Rejected(error)]
  ELSE s


\* ----------------------------------------------------- TransactionExecutor
GetEarliestRetryTime(s) ==
  IF Len(s.pendingTransactions) = 0 THEN NoTimer
  ELSE Min({s.pendingTransactions[k].nextAttemptAt :
              k \in 1..Len(s.pendingTransactions)})

\* setTimeout: the handle is kept as the time the timer fires.
SetTimeout(s, at) ==
  [s EXCEPT !.retryTimer = at, !.armedTimers = @ + 1]

\* The handle of a timer that has fired is told here as NoTimer: clearTimeout
\* does nothing with it.
ClearRetryTimer(s) ==
  IF s.retryTimer # NoTimer
  THEN [s EXCEPT !.retryTimer = NoTimer, !.armedTimers = @ - 1]
  ELSE s

\* The callback of the armed timer is entered.
TimerFired(s) == [s EXCEPT !.retryTimer = NoTimer, !.armedTimers = @ - 1]

\* A scheduleNextRetry that would arm without clearing first.
ScheduleNextRetryKeepsTimer(s, t) ==
  LET earliestRetryTime == GetEarliestRetryTime(s)
  IN IF earliestRetryTime = NoTimer THEN ClearRetryTimer(s)
     ELSE SetTimeout(s, t + Max2(0, earliestRetryTime - t))

\* clearRetryTimer, then setTimeout(executeAll, max(0, earliest - now)).
ScheduleNextRetry(s, t) ==
  LET cleared == ClearRetryTimer(s)
      earliestRetryTime == GetEarliestRetryTime(cleared)
  IN IF earliestRetryTime = NoTimer THEN cleared
     ELSE SetTimeout(cleared, t + Max2(0, earliestRetryTime - t))

ResetRetryDelays(s, t) ==
  UpdateTransactions(s,
    [k \in 1..Len(s.pendingTransactions) |->
       [s.pendingTransactions[k] EXCEPT !.nextAttemptAt = t]])

\* What `const result = await this.runMutationFn(transaction)` evaluates to
\* when the mutation function returned v: runMutationFn awaits the mutation
\* function and returns nothing.
RunMutationFnResult(v) == Undefined

\* The call mutationFn({transaction, idempotencyKey}) of runMutationFn.
InvokeMutationFn(s, tx) ==
  [s EXCEPT !.inflight = @ + 1,
            !.keysSeen[tx.id] = @ \cup {tx.idempotencyKey},
            !.drain = [IdleDrain EXCEPT !.pc = "mutation", !.tx = tx]]

\* An updatedTransaction that would draw a fresh idempotencyKey for the retry.
UpdatedTransactionNewKey(tx, error, t) ==
  [tx EXCEPT !.retryCount = tx.retryCount + 1,
             !.nextAttemptAt = t + CalculateDelay(tx.retryCount),
             !.lastError = error,
             !.idempotencyKey = <<"key", tx.id, tx.retryCount + 1>>]

\* An updatedTransaction built without the spread of the transaction's
\* metadata.
UpdatedTransactionDropsMetadata(tx, error, t) ==
  [tx EXCEPT !.retryCount = tx.retryCount + 1,
             !.nextAttemptAt = t + CalculateDelay(tx.retryCount),
             !.lastError = error,
             !.metadata = Undefined]

UpdatedTransaction(tx, error, t) ==
  [tx EXCEPT !.retryCount = tx.retryCount + 1,
             !.nextAttemptAt = t + CalculateDelay(tx.retryCount),
             !.lastError = error]

\* handleError up to its first await: outbox.remove when the failure is
\* permanent, the read of outbox.update otherwise.
HandleError(s, tx, error, t) ==
  IF ~ShouldRetry(error, tx.retryCount)
  THEN [OutboxRemove(MarkCompleted(s, tx), tx.id) EXCEPT
          !.drain = [IdleDrain EXCEPT !.pc = "removePermanent", !.tx = tx,
                                      !.error = error]]
  ELSE LET updatedTransaction == UpdatedTransaction(tx, error, t)
           got == OutboxGet(s.storage, tx.id)
       IN [UpdateTransaction(MarkFailed(s, tx), updatedTransaction) EXCEPT
             !.drain = [IdleDrain EXCEPT !.pc = "updateGet", !.tx = tx,
                                         !.error = error,
                                         !.updated = updatedTransaction,
                                         !.found = got.found,
                                         !.existing = got.tx]]

\* executeTransaction up to its first await.
ExecuteTransaction(s, tx, t) ==
  IF tx.mutationFnName \in MutationFns
  THEN InvokeMutationFn(MarkStarted(s, tx), tx)
  ELSE HandleError([MarkStarted(s, tx) EXCEPT !.unknownCalls[tx.id] = @ + 1],
                   tx, UnknownFn, t)

\* One turn of the while loop of runExecution, up to the next await or to the
\* end of the drain: scheduleNextRetry, and runExecution's promise resolves.
\* executeAll, suspended at `await this.executionPromise`, is resumed later.
RunExecution(s, t) ==
  LET batch == GetNextBatch(s, MaxConcurrency, t)
  IN IF Len(s.pendingTransactions) > 0 /\ Len(batch) # 0
     THEN ExecuteTransaction(s, batch[1], t)
     ELSE [ScheduleNextRetry(s, t) EXCEPT
             !.drain = [IdleDrain EXCEPT !.pc = "finally"]]

\* executeAll's finally block.
ExecuteAllFinally(s) == [s EXCEPT !.isExecuting = FALSE, !.drain = IdleDrain]

\* A runExecution that would await Promise.all: it rejects at once with the
\* error of executeTransaction.
AllRejects(s, t) ==
  [s EXCEPT !.drain = [IdleDrain EXCEPT !.pc = "finally", !.error = StorageError]]

\* `await Promise.allSettled(executions)` when executeTransaction has rejected
\* (handleError threw): the rejection is absorbed and the loop goes on.
AllSettled(s, t) == RunExecution(s, t)

\* handleError when the storage call it awaits throws: outbox.remove in the
\* permanent branch, outbox.update in the other.
HandleErrorThrows(s, tx, error, t) ==
  IF ~ShouldRetry(error, tx.retryCount)
  THEN [MarkCompleted(s, tx) EXCEPT
          !.drain = [IdleDrain EXCEPT !.pc = "threw", !.tx = tx, !.error = error]]
  ELSE [UpdateTransaction(MarkFailed(s, tx), UpdatedTransaction(tx, error, t))
          EXCEPT !.drain = [IdleDrain EXCEPT !.pc = "threw", !.tx = tx,
                                             !.error = error]]

\* An executeAll without the isExecuting guard.
ExecuteAllUnguarded(s, t) ==
  RunExecution([s EXCEPT !.isExecuting = TRUE], t)

\* An executeAll that would reset the retry delays before it drains.
ExecuteAllResets(s, t) ==
  IF s.isExecuting THEN s
  ELSE RunExecution([ResetRetryDelays(s, t) EXCEPT !.isExecuting = TRUE], t)

ExecuteAll(s, t) ==
  IF s.isExecuting THEN s
  ELSE RunExecution([s EXCEPT !.isExecuting = TRUE], t)

Execute(s, tx, t) ==
  ExecuteAll(Schedule([s EXCEPT !.viaPersist = @ \cup {tx.id}], tx), t)

RECURSIVE ScheduleEach(_, _)
ScheduleEach(s, txs) ==
  IF txs = <<>> THEN s ELSE ScheduleEach(Schedule(s, Head(txs)), Tail(txs))

\* config.beforeRetry: a filter keeping the transactions whose id is in `keep`
\* (every id when the filter is not supplied).
BeforeRetry(transactions, keep) ==
  SelectSeq(transactions, LAMBDA tx : tx.id \in keep)

RemovedTransactions(transactions, filtered) ==
  SelectSeq(transactions,
            LAMBDA tx : \A k \in 1..Len(filtered) : filtered[k].id # tx.id)

\* A loadPendingTransactions that would leave the stored nextAttemptAt alone.
LoadPendingTransactionsNoReset(s, transactions, keep, t) ==
  LET filtered == BeforeRetry(transactions, keep)
  IN OutboxRemoveMany(ScheduleNextRetry(ScheduleEach(s, filtered), t),
                      RemovedTransactions(transactions, filtered))

\* loadPendingTransactions after outbox.getAll() has returned `transactions`,
\* up to the call of outbox.removeMany.
LoadPendingTransactions(s, transactions, keep, t) ==
  LET filtered == BeforeRetry(transactions, keep)
  IN OutboxRemoveMany(
       ScheduleNextRetry(ResetRetryDelays(ScheduleEach(s, filtered), t), t),
       RemovedTransactions(transactions, filtered))

ExecutorClear(s) == ClearRetryTimer(SchedulerClear(s))


\* ------------------------------------------------------------------- Init
StoreAll(stored) ==
  [id \in {stored[k].id : k \in 1..Len(stored)} |->
     Serialize(stored[FindIndex(stored, id)])]

\* `stored`: transactions an earlier instance persisted before it stopped;
\* `keep`: the ids config.beforeRetry keeps.
InitWith(ids, stored, keep) ==
  /\ now = 0
  /\ storage = StoreAll(stored)
  /\ disposed = [i \in Inst |-> FALSE]
  /\ beforeRetry = keep
  /\ notified = [i \in Inst |-> 0]
  /\ persistThrew = [i \in Inst |-> [id \in TxIds |-> NoError]]
  /\ addThrowing = [i \in Inst |-> {}]
  /\ peeked = NotPeeked
  /\ outboxCall = NoCall
  /\ removing = [i \in Inst |-> 0]
  /\ created = [i \in Inst |-> [id \in TxIds |-> 0]]
  /\ unknownCalls = [i \in Inst |-> [id \in TxIds |-> 0]]
  /\ drainPc = [i \in Inst |-> IdleDrain.pc]
  /\ leader = None
  /\ initialize = [i \in Inst |-> "requesting"]
  /\ isLeaderState = [i \in Inst |-> FALSE]
  /\ pendingTransactions = [i \in Inst |-> <<>>]
  /\ isRunning = [i \in Inst |-> FALSE]
  /\ isExecuting = [i \in Inst |-> FALSE]
  /\ retryTimer = [i \in Inst |-> NoTimer]
  /\ armedTimers = [i \in Inst |-> 0]
  /\ drain = [i \in Inst |-> IdleDrain]
  /\ persisting = [i \in Inst |-> {}]
  /\ loading = [i \in Inst |-> <<>>]
  /\ clearing = [i \in Inst |-> IdleClear]
  /\ pendingTransactionPromises = [i \in Inst |-> {}]
  /\ outcome = [i \in Inst |-> [id \in TxIds |-> NoOutcome]]
  /\ drafts = ids
  /\ clearCalls = ClearCalls
  /\ inflight = [i \in Inst |-> 0]
  /\ keysSeen = [id \in TxIds |-> {}]
  /\ succeeded = [i \in Inst |-> {}]
  /\ returned = [i \in Inst |-> [id \in TxIds |-> Undefined]]
  /\ permanent = [i \in Inst |-> {}]
  /\ exhausted = [i \in Inst |-> {}]
  /\ viaPersist = [i \in Inst |-> {}]
  /\ nonLeaderPersist = [i \in Inst |-> {}]
  /\ lostPending = [i \in Inst |-> {}]
  /\ dropped = [i \in Inst |-> {}]
  /\ failures = 0
  /\ handovers = 0

InitOver(ids) == InitWith(ids, <<>>, TxIds)

Init == InitOver(TxIds)

\* ------------------------------------------------- coordinator: leadership
\* loadAndReplayTransactions up to its first await: loadPendingTransactions
\* calls outbox.getAll().
LoadAndReplayTransactions(i) ==
  loading' = [loading EXCEPT ![i] = Append(@, OutboxGetAll(storage))]

\* initialize(): requestLeadership() resolves; the election grants leadership
\* when no other instance holds it.
RequestLeadershipResolved(i) ==
  /\ initialize[i] = "requesting"
  /\ ~disposed[i]
  /\ initialize' = [initialize EXCEPT ![i] = "done"]
  /\ IF leader \in {None, i}
     THEN leader' = i /\ LoadAndReplayTransactions(i)
     ELSE UNCHANGED <<leader, loading>>
  /\ UNCHANGED <<now, exVars, isLeaderState, persisting, removing, clearing,
                 drafts, clearCalls, envVars, ghVars>>

\* The transactions instance i persisted as leader whose waiter is pending and
\* whose mutation function has neither returned nor failed for good.
Unfinished(i) ==
  {id \in TxIds :
     /\ outcome[i][id] = Waiting
     /\ id \in viaPersist[i] \cup {tx.id : tx \in persisting[i]}
     /\ id \notin succeeded[i] \cup permanent[i] \cup exhausted[i]}

\* The onLeadershipChange callback, called by the election with true for the
\* instance it grants leadership and with false for the one that loses it.
LeadershipChange(i, isLeader) ==
  /\ ~disposed[i]
  /\ IF isLeader
     THEN /\ leader \in {None, i}
          /\ ~isLeaderState[i]
          /\ leader' = i
          /\ LoadAndReplayTransactions(i)
          /\ UNCHANGED <<handovers, lostPending>>
     ELSE /\ leader = i
          /\ handovers < MaxHandovers
          /\ leader' = None
          /\ handovers' = handovers + 1
          /\ lostPending' = [lostPending EXCEPT ![i] =
               IF isLeaderState[i] THEN @ \cup Unfinished(i) ELSE @]
          /\ UNCHANGED loading
  /\ isLeaderState' = [isLeaderState EXCEPT ![i] = isLeader]
  /\ UNCHANGED <<now, exVars, initialize, persisting, removing, clearing,
                 drafts, clearCalls, envVars, succeeded, returned, permanent,
                 exhausted, nonLeaderPersist, dropped, failures>>

\* The ids of the transactions the oldest outbox.getAll() of i has read.
LoadedNow(i) == {Head(loading[i])[j].id : j \in 1..Len(Head(loading[i]))}

\* outbox.getAll() returns: the rest of loadPendingTransactions; executeAll
\* follows at once unless loadPendingTransactions awaits outbox.removeMany.
LoadDone(i) ==
  /\ loading[i] # <<>>
  /\ loading' = [loading EXCEPT ![i] = Tail(@)]
  /\ LET transactions == Head(loading[i])
         s == LoadPendingTransactions(S(i), transactions, beforeRetry, now)
     IN IF RemovedTransactions(transactions,
                               BeforeRetry(transactions, beforeRetry)) = <<>>
        THEN Apply(i, ExecuteAll(s, now)) /\ UNCHANGED removing
        ELSE Apply(i, s) /\ removing' = [removing EXCEPT ![i] = @ + 1]
  /\ dropped' = [dropped EXCEPT ![i] = @ \cup (LoadedNow(i) \ beforeRetry)]
  /\ UNCHANGED <<now, leader, initialize, isLeaderState, persisting, clearing,
                 drafts, clearCalls, envVars, succeeded, returned, permanent,
                 exhausted, nonLeaderPersist, lostPending, failures, handovers>>

\* outbox.removeMany() returns: loadAndReplayTransactions goes on to executeAll.
LoadRemoveDone(i) ==
  /\ removing[i] > 0
  /\ removing' = [removing EXCEPT ![i] = @ - 1]
  /\ Apply(i, ExecuteAll(S(i), now))
  /\ UNCHANGED <<now, leader, initialize, isLeaderState, persisting, loading,
                 clearing, drafts, clearCalls, envVars, ghVars>>

\* dispose(): the connectivity and leadership listeners are unsubscribed and
\* leadership is released; nothing else of the instance is touched.
Dispose(i) ==
  /\ ~disposed[i]
  /\ disposed' = [disposed EXCEPT ![i] = TRUE]
  /\ leader' = IF leader = i THEN None ELSE leader
  /\ UNCHANGED <<now, exVars, initialize, isLeaderState, persisting, loading,
                 removing, clearing, drafts, clearCalls, beforeRetry, obVars,
                 ghVars>>

\* The connectivity listener, for an instance whose isOfflineEnabled is
\* `isOfflineEnabled`.
OnlineListener(s, isOfflineEnabled, t) ==
  IF isOfflineEnabled THEN ExecuteAll(ResetRetryDelays(s, t), t) ELSE s

\* A connectivity notification is delivered to instance i, leader or not.
ConnectivityUp(i) ==
  /\ ~disposed[i]
  /\ notified[i] < MaxNotified
  /\ notified' = [notified EXCEPT ![i] = @ + 1]
  /\ Apply(i, OnlineListener(S(i), isLeaderState[i], now))
  /\ UNCHANGED <<now, leader, initialize, isLeaderState, persisting, loading,
                 removing, clearing, drafts, clearCalls, disposed, beforeRetry,
                 persistThrew, addThrowing, peeked, outboxCall, ghVars>>

\* The connectivity listener of a leader.
NotifyOnline(i) ==
  /\ ~disposed[i]
  /\ isLeaderState[i]
  /\ Apply(i, ExecuteAll(ResetRetryDelays(S(i), now), now))
  /\ UNCHANGED <<now, coVars, ghVars>>

\* ---------------------------------------------------- coordinator: persist
\* A persistTransaction that would not look at isOfflineEnabled.
PersistTransactionNoLeaderCheck(s, tx, isLeader) == OutboxAdd(s, tx)

\* A persistTransaction that would call execute without awaiting outbox.add
\* (tx.nextAttemptAt is Date.now() of the commit that calls it).
PersistTransactionNoAwait(s, tx, isLeader) ==
  IF ~isLeader THEN ResolveTransaction(s, tx.id, Undefined)
  ELSE Execute(OutboxAdd(s, tx), tx, tx.nextAttemptAt)

\* persistTransaction up to its first await.
PersistTransaction(s, tx, isLeader) ==
  IF ~isLeader THEN ResolveTransaction(s, tx.id, Undefined)
  ELSE OutboxAdd(s, tx)

\* The caller that submits a draft registers its waiter for the id before the
\* transaction is handed to persistTransaction.
RegisterWaiter(s, id) == WaitForTransactionCompletion(s, id)

\* A draft is committed on instance i: the caller's waiter is registered and
\* the transaction is handed to persistTransaction. Callers submit nothing to
\* an instance they have disposed.
Commit(i, id) ==
  /\ ~disposed[i]
  /\ id \in drafts
  /\ id = NextDraft(drafts)
  /\ drafts' = drafts \ {id}
  /\ LET tx == NewTransaction(id, now)
     IN /\ Apply(i, PersistTransaction(RegisterWaiter(S(i), id),
                                       tx, isLeaderState[i]))
        /\ IF isLeaderState[i]
           THEN /\ persisting' = [persisting EXCEPT ![i] = @ \cup {tx}]
                /\ UNCHANGED nonLeaderPersist
           ELSE /\ nonLeaderPersist' = [nonLeaderPersist EXCEPT ![i] = @ \cup {id}]
                /\ UNCHANGED persisting
  /\ UNCHANGED <<now, leader, initialize, isLeaderState, loading, removing,
                 clearing, clearCalls, envVars, succeeded, returned, permanent,
                 exhausted, lostPending, dropped, failures, handovers>>

\* outbox.add returns: executor.execute(transaction).
PersistAddDone(i) ==
  \E tx \in persisting[i] :
    /\ persisting' = [persisting EXCEPT ![i] = @ \ {tx}]
    /\ Apply(i, Execute(S(i), tx, now))
    /\ UNCHANGED <<now, leader, initialize, isLeaderState, loading, removing,
                   clearing, drafts, clearCalls, envVars, ghVars>>

\* A catch block that would go on to execute the transaction.
PersistTransactionCatchExecutes(s, tx, t) == Execute(s, tx, t)

\* persistTransaction's catch block: the error is logged and thrown again;
\* executor.execute is not reached.
PersistTransactionCatch(s, tx, t) == s

\* A draft is committed on a leader and the outbox.add of persistTransaction
\* is going to throw: nothing is written.
CommitAddFails(i, id) ==
  /\ ~disposed[i]
  /\ isLeaderState[i]
  /\ id \in drafts
  /\ id = NextDraft(drafts)
  /\ drafts' = drafts \ {id}
  /\ Apply(i, RegisterWaiter(S(i), id))
  /\ addThrowing' = [addThrowing EXCEPT ![i] = @ \cup {NewTransaction(id, now)}]
  /\ UNCHANGED <<now, leader, initialize, isLeaderState, persisting, loading,
                 removing, clearing, clearCalls, disposed, beforeRetry,
                 notified, persistThrew, peeked, outboxCall, ghVars>>

\* outbox.add throws: persistTransaction throws the storage error to commit.
PersistAddThrows(i) ==
  \E tx \in addThrowing[i] :
    /\ addThrowing' = [addThrowing EXCEPT ![i] = @ \ {tx}]
    /\ persistThrew' = [persistThrew EXCEPT ![i][tx.id] = StorageError]
    /\ Apply(i, PersistTransactionCatch(S(i), tx, now))
    /\ UNCHANGED <<now, leader, initialize, isLeaderState, persisting, loading,
                   removing, clearing, drafts, clearCalls, disposed,
                   beforeRetry, notified, peeked, outboxCall, ghVars>>

\* ------------------------------------------------------------- drain steps
\* The mutation function returns v: markCompleted, then outbox.remove.
MutationReturns(i, v) ==
  /\ drain[i].pc = "mutation"
  /\ LET s == S(i)
         tx == s.drain.tx
     IN /\ Apply(i, [OutboxRemove(MarkCompleted([s EXCEPT !.inflight = @ - 1], tx),
                                  tx.id)
                       EXCEPT !.drain = [IdleDrain EXCEPT
                                           !.pc = "remove", !.tx = tx,
                                           !.result = RunMutationFnResult(v)]])
        /\ succeeded' = [succeeded EXCEPT ![i] = @ \cup {tx.id}]
        /\ returned' = [returned EXCEPT ![i][tx.id] = v]
  /\ UNCHANGED <<now, coVars, permanent, exhausted, nonLeaderPersist,
                 lostPending, dropped, failures,
                 handovers>>

\* The mutation function throws error: handleError.
MutationThrows(i, error, cap) ==
  /\ drain[i].pc = "mutation"
  /\ failures < cap
  /\ failures' = failures + 1
  /\ LET s == S(i)
         tx == s.drain.tx
     IN /\ Apply(i, HandleError([s EXCEPT !.inflight = @ - 1], tx, error, now))
        /\ permanent' = [permanent EXCEPT ![i] =
             IF error.name = "NonRetriableError" THEN @ \cup {tx.id} ELSE @]
        /\ exhausted' = [exhausted EXCEPT ![i] =
             IF error.name # "NonRetriableError" /\ tx.retryCount >= MaxRetries
             THEN @ \cup {tx.id} ELSE @]
  /\ UNCHANGED <<now, coVars, succeeded, returned, nonLeaderPersist,
                 lostPending, dropped, handovers>>

\* outbox.remove returns after a successful call: the waiter is resolved and
\* the loop goes on.
RemoveDone(i) ==
  /\ drain[i].pc = "remove"
  /\ LET s == S(i)
     IN Apply(i, RunExecution(
                   ResolveTransaction(s, s.drain.tx.id, s.drain.result), now))
  /\ UNCHANGED <<now, coVars, ghVars>>

\* outbox.remove returns after a permanent failure: the waiter is rejected.
RemovePermanentDone(i) ==
  /\ drain[i].pc = "removePermanent"
  /\ LET s == S(i)
     IN Apply(i, RunExecution(
                   RejectTransaction(s, s.drain.tx.id, s.drain.error), now))
  /\ UNCHANGED <<now, coVars, ghVars>>

\* outbox.update: its read returns; not found throws out of handleError (the
\* drain's allSettled takes it), otherwise the merged record is written.
UpdateGetDone(i) ==
  /\ drain[i].pc = "updateGet"
  /\ LET s == S(i)
     IN IF s.drain.found
        THEN Apply(i, [OutboxAdd(s, Merge(s.drain.existing, s.drain.updated))
                         EXCEPT !.drain.pc = "updateAdd"])
        ELSE Apply(i, AllSettled(s, now))
  /\ UNCHANGED <<now, coVars, ghVars>>

\* outbox.update returns: scheduleNextRetry, and the loop goes on.
UpdateAddDone(i) ==
  /\ drain[i].pc = "updateAdd"
  /\ Apply(i, RunExecution(ScheduleNextRetry(S(i), now), now))
  /\ UNCHANGED <<now, coVars, ghVars>>

\* ------------------------------------------- drain steps, storage failing
\* The mutation function returns v: markCompleted, then an outbox.remove that
\* is going to throw (the entry stays).
MutationReturnsRemoveFails(i, v) ==
  /\ drain[i].pc = "mutation"
  /\ LET s == S(i)
         tx == s.drain.tx
     IN /\ Apply(i, [MarkCompleted([s EXCEPT !.inflight = @ - 1], tx)
                       EXCEPT !.drain = [IdleDrain EXCEPT
                                           !.pc = "removeThrows", !.tx = tx,
                                           !.result = RunMutationFnResult(v)]])
        /\ succeeded' = [succeeded EXCEPT ![i] = @ \cup {tx.id}]
        /\ returned' = [returned EXCEPT ![i][tx.id] = v]
  /\ UNCHANGED <<now, coVars, permanent, exhausted, nonLeaderPersist,
                 lostPending, dropped, failures, handovers>>

\* outbox.remove throws after a successful call: executeTransaction's catch
\* hands the storage error to handleError.
RemoveThrows(i) ==
  /\ drain[i].pc = "removeThrows"
  /\ LET s == S(i)
     IN Apply(i, HandleError(s, s.drain.tx, StorageError, now))
  /\ UNCHANGED <<now, coVars, ghVars>>

\* The mutation function throws error, and the storage call of handleError is
\* going to throw.
MutationThrowsStorageFails(i, error, cap) ==
  /\ drain[i].pc = "mutation"
  /\ failures < cap
  /\ failures' = failures + 1
  /\ LET s == S(i)
         tx == s.drain.tx
     IN /\ Apply(i, HandleErrorThrows([s EXCEPT !.inflight = @ - 1], tx, error,
                                      now))
        /\ permanent' = [permanent EXCEPT ![i] =
             IF error.name = "NonRetriableError" THEN @ \cup {tx.id} ELSE @]
        /\ exhausted' = [exhausted EXCEPT ![i] =
             IF error.name # "NonRetriableError" /\ tx.retryCount >= MaxRetries
             THEN @ \cup {tx.id} ELSE @]
  /\ UNCHANGED <<now, coVars, succeeded, returned, nonLeaderPersist,
                 lostPending, dropped, handovers>>

\* outbox.update: its read returns the entry, and its write is going to throw.
UpdateGetDoneAddFails(i) ==
  /\ drain[i].pc = "updateGet"
  /\ drain[i].found
  /\ Apply(i, [S(i) EXCEPT !.drain.pc = "threw"])
  /\ UNCHANGED <<now, coVars, ghVars>>

\* The storage call throws out of handleError: executeTransaction's promise
\* rejects and Promise.allSettled takes it.
HandleErrorThrew(i) ==
  /\ drain[i].pc = "threw"
  /\ Apply(i, AllSettled(S(i), now))
  /\ UNCHANGED <<now, coVars, ghVars>>

\* executeAll is resumed after the drain it awaited has ended.
DrainEnds(i) ==
  /\ drain[i].pc = "finally"
  /\ Apply(i, ExecuteAllFinally(S(i)))
  /\ UNCHANGED <<now, coVars, ghVars>>

\* The wake timer fires. A timer callback runs in a turn of the event loop of
\* its own: it does not run between the end of a drain and the resumption of
\* executeAll, which is a promise job of the turn that ended the drain.
RetryTimerFires(i) ==
  /\ retryTimer[i] # NoTimer
  /\ now >= retryTimer[i]
  /\ drain[i].pc # "finally"
  /\ Apply(i, ExecuteAll(TimerFired(S(i)), now))
  /\ UNCHANGED <<now, coVars, ghVars>>

\* ------------------------------------------------------------ clearOutbox
ClearOutbox(i) ==
  /\ clearing[i].pc = "idle"
  /\ \E c \in clearCalls : clearCalls' = clearCalls \ {c}
  /\ clearing' = [clearing EXCEPT ![i] = [pc |-> "keys", keys |-> DOMAIN storage]]
  /\ UNCHANGED <<now, exVars, leader, initialize, isLeaderState, persisting,
                 loading, removing, drafts, envVars, ghVars>>

\* storage.keys() returns: the deletes are issued.
ClearKeysDone(i) ==
  /\ clearing[i].pc = "keys"
  /\ clearing' = [clearing EXCEPT ![i].pc = "deletes"]
  /\ storage' = [k \in DOMAIN storage \ clearing[i].keys |-> storage[k]]
  /\ UNCHANGED <<now, pendingTransactions, isRunning, isExecuting, retryTimer,
                 armedTimers, drain, pendingTransactionPromises, outcome, inflight,
                 viaPersist, keysSeen, created, unknownCalls, drainPc, leader,
                 initialize, isLeaderState, persisting, loading, removing,
                 drafts, clearCalls, envVars, ghVars>>

\* The deletes return: executor.clear().
ClearDeletesDone(i) ==
  /\ clearing[i].pc = "deletes"
  /\ clearing' = [clearing EXCEPT ![i] = IdleClear]
  /\ Apply(i, ExecutorClear(S(i)))
  /\ UNCHANGED <<now, leader, initialize, isLeaderState, persisting, loading,
                 removing, drafts, clearCalls, envVars, ghVars>>

\* ------------------------------------------------------------------ clock
Deadlines ==
  UNION {{pendingTransactions[i][k].nextAttemptAt :
            k \in 1..Len(pendingTransactions[i])} : i \in Inst}
  \cup {retryTimer[i] : i \in Inst}

Tick ==
  /\ now < MaxTick
  /\ now' = now + 1
  /\ UNCHANGED <<exVars, coVars, ghVars>>

AdvanceClock ==
  /\ \E d \in Deadlines : d > now /\ now' = d
  /\ UNCHANGED <<exVars, coVars, ghVars>>

\* ------------------------------------------------------------------- Next
\* The executor's own steps on the instances I, with at most cap failures of
\* the mutation function, each with one of `errors`.
Core(I, errors, cap) ==
  \/ \E i \in I : RequestLeadershipResolved(i)
  \/ \E i \in I : LeadershipChange(i, TRUE)
  \/ \E i \in I : LoadDone(i)
  \/ \E i \in I : \E id \in TxIds : Commit(i, id)
  \/ \E i \in I : PersistAddDone(i)
  \/ \E i \in I : \E v \in Values : MutationReturns(i, v)
  \/ \E i \in I : \E e \in errors : MutationThrows(i, e, cap)
  \/ \E i \in I : RemoveDone(i)
  \/ \E i \in I : RemovePermanentDone(i)
  \/ \E i \in I : UpdateGetDone(i)
  \/ \E i \in I : UpdateAddDone(i)
  \/ \E i \in I : DrainEnds(i)
  \/ \E i \in I : RetryTimerFires(i)
  \/ AdvanceClock

Clearing(I) ==
  \/ \E i \in I : ClearOutbox(i)
  \/ \E i \in I : ClearKeysDone(i)
  \/ \E i \in I : ClearDeletesDone(i)

\* One instance, two transactions, connectivity events and a clearOutbox call.
Next ==
  \/ Core({"A"}, Errors, MaxFailures)
  \/ \E i \in {"A"} : NotifyOnline(i)
  \/ Clearing({"A"})
Spec == Init /\ [][Next]_vars

\* One instance, two transactions, a clearOutbox call at any moment.
NextClear ==
  \/ Core({"A"}, Errors, MaxFailures)
  \/ Clearing({"A"})
SpecClear == Init /\ [][NextClear]_vars

\* One instance, two transactions created at different times.
NextFifo ==
  \/ Core({"A"}, Errors, MaxFailures)
  \/ Tick
SpecFifo == Init /\ [][NextFifo]_vars

\* One instance that loses and regains leadership, one transaction.
NextHandover ==
  \/ Core({"A"}, Errors, MaxFailures)
  \/ \E i \in {"A"} : LeadershipChange(i, FALSE)
SpecHandover == InitOver({"t1"}) /\ [][NextHandover]_vars

\* Two instances that share the storage and the election, one transaction.
NextTabs ==
  \/ Core(Inst, Errors, MaxFailures)
  \/ \E i \in Inst : LeadershipChange(i, FALSE)
  \/ \E i \in Inst : NotifyOnline(i)
SpecTabs == InitOver({"t1"}) /\ [][NextTabs]_vars

\* One instance, one transaction, transient failures up to the retry bound and
\* beyond.
NextRetry == Core({"A"}, {Transient}, MaxAttempts)
SpecRetry == InitOver({"t1"}) /\ [][NextRetry]_vars

\* The executor's steps on the instances I when nothing is submitted: replay
\* of what storage holds, under changes of leadership.
Replaying(I, errors, cap) ==
  \/ \E i \in I : RequestLeadershipResolved(i)
  \/ \E i \in I : LeadershipChange(i, TRUE)
  \/ \E i \in I : LeadershipChange(i, FALSE)
  \/ \E i \in I : LoadDone(i)
  \/ \E i \in I : LoadRemoveDone(i)
  \/ \E i \in I : \E v \in Values : MutationReturns(i, v)
  \/ \E i \in I : \E e \in errors : MutationThrows(i, e, cap)
  \/ \E i \in I : RemoveDone(i)
  \/ \E i \in I : UpdateGetDone(i)
  \/ \E i \in I : UpdateAddDone(i)
  \/ \E i \in I : DrainEnds(i)
  \/ \E i \in I : RetryTimerFires(i)
  \/ AdvanceClock

\* The continuation steps told by the one variable each of them changes: the
\* election answering requestLeadership, outbox.getAll and outbox.removeMany
\* returning to loadPendingTransactions, storage.set returning to
\* persistTransaction, and the drain leaving the await it is suspended at.
RequestLeadershipAnswers(i) ==
  initialize[i] = "requesting" /\ initialize' = [initialize EXCEPT ![i] = "done"]
GetAllReturns(i) ==
  loading[i] # <<>> /\ loading' = [loading EXCEPT ![i] = Tail(@)]
RemoveManyReturns(i) ==
  removing[i] > 0 /\ removing' = [removing EXCEPT ![i] = @ - 1]
AddReturns(i) ==
  \E tx \in persisting[i] : persisting' = [persisting EXCEPT ![i] = @ \ {tx}]
DrainPcs == {"idle", "mutation", "remove", "removePermanent", "updateGet",
             "updateAdd", "finally", "removeThrows", "threw"}
DrainLeaves(i, pc, to) ==
  drainPc[i] = pc /\ \E p \in to : drainPc' = [drainPc EXCEPT ![i] = p]
\* The wake timer fires: the timer is then unset, or armed anew for the
\* present time or for a pending transaction's nextAttemptAt.
TimerFires(i) ==
  /\ retryTimer[i] # NoTimer
  /\ now >= retryTimer[i]
  /\ drainPc[i] # "finally"
  /\ \E d \in {NoTimer, now} \cup Deadlines :
       retryTimer' = [retryTimer EXCEPT ![i] = d]

\* The event loop runs every continuation that is ready, timers fire, the
\* election answers, storage calls return, and a mutation call that does not
\* throw returns.
Fairness(I) ==
  /\ \A i \in I : WF_initialize(RequestLeadershipAnswers(i))
  /\ \A i \in I : WF_loading(GetAllReturns(i))
  /\ \A i \in I : WF_removing(RemoveManyReturns(i))
  /\ \A i \in I : WF_persisting(AddReturns(i))
  /\ \A i \in I : WF_drainPc(DrainLeaves(i, "mutation", {"remove"}))
  /\ \A i \in I : \A pc \in DrainPcs \ {"idle", "mutation"} :
       WF_drainPc(DrainLeaves(i, pc, DrainPcs \ {pc}))
  /\ \A i \in I : WF_retryTimer(TimerFires(i))
  /\ WF_vars(AdvanceClock)

\* One instance that stays leader, with nothing cleared or disposed, and one
\* transaction whose mutation function fails up to the retry bound and beyond.
NextWaiters == Core({"A"}, Errors, MaxAttempts)
SpecWaiters == InitOver({"t1"}) /\ [][NextWaiters]_vars /\ Fairness({"A"})

\* What an earlier instance left in storage when it stopped: t1 after one
\* failed attempt, its retry still a delay away, and t2 never attempted.
StoppedEarlier ==
  <<UpdatedTransaction(NewTransaction("t1", 0), Transient, 0),
    NewTransaction("t2", 0)>>

\* An instance starts on that storage, with a beforeRetry that keeps t1 only,
\* and loses and regains leadership.
NextReplay == Replaying({"A"}, {Transient}, MaxFailures)
SpecReplay ==
  /\ InitWith({}, StoppedEarlier, {"t1"})
  /\ [][NextReplay]_vars
  /\ Fairness({"A"})

\* Storage holds t1, persisted by an earlier build of the application under a
\* mutation function name that config.mutationFns no longer has; the instance
\* replays it and takes a new transaction t2.
StoredUnknown == <<[NewTransaction("t1", 0) EXCEPT !.mutationFnName = "gone"]>>
NextUnknown == Core({"A"}, Errors, MaxFailures)
SpecUnknown == InitWith({"t2"}, StoredUnknown, TxIds) /\ [][NextUnknown]_vars

\* Storage holds t1 from an earlier run; beforeRetry keeps t1 and nothing else,
\* and the instance takes a new transaction t2.
NextFilter ==
  \/ Core({"A"}, Errors, MaxFailures)
  \/ \E i \in {"A"} : LoadRemoveDone(i)
SpecFilter ==
  InitWith({"t2"}, <<NewTransaction("t1", 0)>>, {"t1"}) /\ [][NextFilter]_vars

\* One instance and one transaction, with dispose() called at any moment.
NextDispose ==
  \/ Core({"A"}, Errors, MaxFailures)
  \/ \E i \in {"A"} : Dispose(i)
SpecDispose == InitOver({"t1"}) /\ [][NextDispose]_vars

\* The waiter registry on its own: waitForTransactionCompletion,
\* resolveTransaction and rejectTransaction called in any order.
WaitFor(i, id) ==
  /\ created[i][id] < MaxCreated
  /\ Apply(i, WaitForTransactionCompletion(S(i), id))
  /\ UNCHANGED <<now, coVars, ghVars>>

Resolve(i, id, result) ==
  /\ Apply(i, ResolveTransaction(S(i), id, result))
  /\ UNCHANGED <<now, coVars, ghVars>>

Reject(i, id, error) ==
  /\ Apply(i, RejectTransaction(S(i), id, error))
  /\ UNCHANGED <<now, coVars, ghVars>>

NextRegistry ==
  \/ \E i \in {"A"} : \E id \in TxIds : WaitFor(i, id)
  \/ \E i \in {"A"} : \E id \in TxIds : \E v \in Values \cup {Undefined} :
       Resolve(i, id, v)
  \/ \E i \in {"A"} : \E id \in TxIds : \E e \in Errors : Reject(i, id, e)
SpecRegistry == InitOver({}) /\ [][NextRegistry]_vars

\* One instance, two transactions, failures of both kinds, and connectivity
\* notifications delivered at any moment, before and after the instance is told
\* that it leads.
NextOnline ==
  \/ Core({"A"}, Errors, MaxFailures)
  \/ \E i \in {"A"} : ConnectivityUp(i)
SpecOnline == Init /\ [][NextOnline]_vars

\* The steps in which a storage call of the Outbox throws: outbox.add of a
\* persist, outbox.remove after a call, outbox.remove and outbox.update of
\* handleError.
StorageFailing(I, errors, cap) ==
  \/ \E i \in I : \E id \in TxIds : CommitAddFails(i, id)
  \/ \E i \in I : PersistAddThrows(i)
  \/ \E i \in I : \E v \in Values : MutationReturnsRemoveFails(i, v)
  \/ \E i \in I : RemoveThrows(i)
  \/ \E i \in I : \E e \in errors : MutationThrowsStorageFails(i, e, cap)
  \/ \E i \in I : UpdateGetDoneAddFails(i)
  \/ \E i \in I : HandleErrorThrew(i)

\* One instance, two transactions, a storage whose calls may throw.
NextStorage ==
  \/ Core({"A"}, Errors, MaxFailures)
  \/ StorageFailing({"A"}, Errors, MaxFailures)
SpecStorage == Init /\ [][NextStorage]_vars

\* Outbox.getAll on its own. Entries are written under tx: keys by add, with
\* the version of this build or of another one, and deleted; other users of
\* the storage keep keys of their own; storage.keys() lists the keys in any
\* order.
ForeignKeys == {<<"", "theme">>}
Versions == {Version, Version + 1}
Orders(keys) ==
  {order \in [1..Cardinality(keys) -> keys] :
     \A j, k \in 1..Cardinality(keys) : order[j] = order[k] => j = k}

Put(i, id, t, v) ==
  /\ Apply(i, OutboxAdd(S(i), [NewTransaction(id, t) EXCEPT !.version = v]))
  /\ UNCHANGED <<now, coVars, ghVars>>

Delete(i, id) ==
  /\ id \in DOMAIN storage
  /\ Apply(i, OutboxRemove(S(i), id))
  /\ UNCHANGED <<now, coVars, ghVars>>

PeekOutbox(i) ==
  /\ \E foreign \in SUBSET ForeignKeys :
       \E keys \in Orders({GetStorageKey(id) : id \in DOMAIN storage} \cup foreign) :
         peeked' = [keys |-> keys, store |-> storage,
                    result |-> GetAll(keys, storage)]
  /\ UNCHANGED <<now, exVars, leader, initialize, isLeaderState, persisting,
                 loading, removing, clearing, drafts, clearCalls, disposed,
                 beforeRetry, notified, persistThrew, addThrowing, outboxCall,
                 ghVars>>

NextPeek ==
  \/ \E id \in TxIds : \E t \in 0..MaxCreatedAt : \E v \in Versions :
       Put("A", id, t, v)
  \/ \E id \in TxIds : Delete("A", id)
  \/ PeekOutbox("A")
SpecPeek == InitOver({}) /\ [][NextPeek]_vars

\* The Outbox alone, with update as the two steps it is made of (the read and
\* the write), so that other calls fall between them.
Patches ==
  {[retryCount |-> 1],
   [retryCount |-> 2, nextAttemptAt |-> BaseDelay, lastError |-> Transient]}

AddCalled(i, id, t, v) ==
  /\ outboxCall.pc # "get"
  /\ LET tx == [NewTransaction(id, t) EXCEPT !.version = v]
         s == OutboxAdd(S(i), tx)
     IN /\ Apply(i, s)
        /\ outboxCall' = [NoCall EXCEPT !.pc = "done", !.op = "add", !.id = id,
                                         !.arg = tx, !.before = storage,
                                         !.after = s.storage]
  /\ UNCHANGED <<now, leader, initialize, isLeaderState, persisting, loading,
                 removing, clearing, drafts, clearCalls, disposed, beforeRetry,
                 notified, persistThrew, addThrowing, peeked, ghVars>>

UpdateCalled(i, id, patch) ==
  /\ outboxCall.pc # "get"
  /\ LET got == OutboxGet(storage, id)
     IN outboxCall' = [NoCall EXCEPT !.pc = "get", !.op = "update", !.id = id,
                                     !.arg = patch, !.found = got.found,
                                     !.existing = got.tx]
  /\ UNCHANGED <<now, exVars, leader, initialize, isLeaderState, persisting,
                 loading, removing, clearing, drafts, clearCalls, disposed,
                 beforeRetry, notified, persistThrew, addThrowing, peeked,
                 ghVars>>

UpdateGetReturns(i) ==
  /\ outboxCall.pc = "get"
  /\ LET s == OutboxUpdate(S(i), outboxCall.found, outboxCall.existing,
                           outboxCall.arg)
     IN /\ Apply(i, s)
        /\ outboxCall' = [outboxCall EXCEPT
                            !.pc = "done", !.before = storage,
                            !.after = s.storage,
                            !.threw = IF outboxCall.found THEN NoError
                                      ELSE NotFound]
  /\ UNCHANGED <<now, leader, initialize, isLeaderState, persisting, loading,
                 removing, clearing, drafts, clearCalls, disposed, beforeRetry,
                 notified, persistThrew, addThrowing, peeked, ghVars>>

NextOutbox ==
  \/ \E id \in TxIds : \E t \in 0..MaxCreatedAt : \E v \in Versions :
       AddCalled("A", id, t, v)
  \/ \E id \in TxIds : Delete("A", id)
  \/ \E id \in TxIds : \E patch \in Patches : UpdateCalled("A", id, patch)
  \/ UpdateGetReturns("A")
SpecOutbox == InitOver({}) /\ [][NextOutbox]_vars

\* removeFromOutbox(id): outbox.remove(id), and nothing after it returns. A
\* call for an id that storage does not hold changes nothing.
RemoveFromOutbox(i, id) ==
  /\ ~disposed[i]
  /\ id \in DOMAIN storage
  /\ Apply(i, OutboxRemove(S(i), id))
  /\ UNCHANGED <<now, coVars, ghVars>>

\* One instance, two transactions, a removeFromOutbox call at any moment.
NextRemove ==
  \/ Core({"A"}, Errors, MaxFailures)
  \/ \E i \in {"A"} : \E id \in TxIds : RemoveFromOutbox(i, id)
SpecRemove == Init /\ [][NextRemove]_vars

\* Storage holds t1 as an earlier run left it, one failure away from the retry
\* bound; the instance replays it and takes a new transaction t2. Two calls of
\* the mutation function may fail, and every call that is awaited settles in
\* the end.
NearRetryBound ==
  <<[NewTransaction("t1", 0) EXCEPT !.retryCount = MaxRetries - 1,
                                     !.lastError = Transient]>>
NextDrain == Core({"A"}, Errors, MaxFailures + 1)
SpecDrain ==
  /\ InitWith({"t2"}, NearRetryBound, TxIds)
  /\ [][NextDrain]_vars
  /\ Fairness({"A"})


\* ================================================================== claims
PendingIds(i) ==
  {pendingTransactions[i][k].id : k \in 1..Len(pendingTransactions[i])}

\* A step in which instance i calls a mutation function (for drain'[i].tx).
Started(i) == inflight'[i] > inflight[i]

\* C1: on one instance at most one mutation-function call is in flight at any
\* moment, whatever the interleaving of persist, executeAll, timer firings,
\* connectivity events, replays and clearOutbox; the scheduler's running count
\* is 0 or 1.
C1_AtMostOneInFlight ==
  \A i \in Inst :
    /\ inflight[i] \in {0, 1}
    /\ inflight[i] = 1 => isExecuting[i] /\ drain[i].pc = "mutation"

\* C1 witness: a call is in flight while clearOutbox has reset the running
\* flag and a later persist has put a ready transaction in the scheduler.
C1_Witness ==
  \E i \in Inst :
    /\ inflight[i] = 1
    /\ ~isRunning[i]
    /\ \E k \in 1..Len(pendingTransactions[i]) :
         /\ pendingTransactions[i][k].id # drain[i].tx.id
         /\ IsReadyToRun(pendingTransactions[i][k], now)

\* C2: once a mutation-function call for an id has returned successfully on
\* an instance, that instance never calls the mutation function for that id
\* again.
C2_AtMostOnce ==
  [][\A i \in Inst : Started(i) => drain'[i].tx.id \notin succeeded[i]]_vars

\* C3: whenever a transaction is started, no transaction with a smaller
\* createdAt is pending in the scheduler, not even one that waits in backoff.
C3_StartedInCreatedAtOrder ==
  [][\A i \in Inst : Started(i) =>
       \A k \in 1..Len(pendingTransactions'[i]) :
         pendingTransactions'[i][k].createdAt >= drain'[i].tx.createdAt]_vars

\* C3 amended: whenever a transaction is started, no transaction with a
\* smaller createdAt that is ready to run (nextAttemptAt <= now) is pending;
\* an older transaction still in retry backoff is passed over.
C3_StartedOldestReady ==
  [][\A i \in Inst : Started(i) =>
       \A k \in 1..Len(pendingTransactions'[i]) :
         pendingTransactions'[i][k].createdAt < drain'[i].tx.createdAt
           => ~IsReadyToRun(pendingTransactions'[i][k], now)]_vars

\* C3 witness: a transaction runs while an older one waits in backoff.
C3_Witness ==
  \E i \in Inst :
    /\ drain[i].pc = "mutation"
    /\ \E k \in 1..Len(pendingTransactions[i]) :
         /\ pendingTransactions[i][k].createdAt < drain[i].tx.createdAt
         /\ pendingTransactions[i][k].retryCount > 0
         /\ ~IsReadyToRun(pendingTransactions[i][k], now)

\* C4: when the mutation function of a transaction returns v, the waiter of
\* that transaction is resolved with exactly v, and the transaction leaves the
\* outbox.
C4_WaiterResolvedWithResult ==
  \A i \in Inst : \A id \in succeeded[i] :
    outcome[i][id].kind = "resolved" =>
      /\ outcome[i][id].value = returned[i][id]
      /\ id \notin DOMAIN storage


\* The drain of instance i has finished handling the failure of id.
Handled(i, id) == ~(drain[i].tx.id = id /\ drain[i].pc = "removePermanent")

\* C5: a transaction whose mutation function failed with a NonRetriable error
\* is never retried: it is removed from the scheduler and the outbox and its
\* waiter is rejected with that error.
C5_NonRetriableNeverRetried ==
  [][\A i \in Inst :
       /\ Started(i) => drain'[i].tx.id \notin permanent[i]
       /\ \A id \in permanent[i] :
            Handled(i, id) =>
              /\ id \notin PendingIds(i)
              /\ id \notin DOMAIN storage
              /\ outcome[i][id] = Rejected(NonRetriable)]_vars

\* C6: retries are bounded: the retryCount of a transaction in the outbox or
\* the scheduler never exceeds maxRetries, so a transaction fails at most
\* maxRetries + 1 times (in SpecRetry every failure is of the one transaction),
\* and a failure at retryCount = maxRetries removes the transaction from both
\* and rejects its waiter with the last error.
RetryCountBounded ==
  /\ \A i \in Inst : \A k \in 1..Len(pendingTransactions[i]) :
       pendingTransactions[i][k].retryCount <= MaxRetries
  /\ \A id \in DOMAIN storage : storage[id].retryCount <= MaxRetries

C6_RetriesBounded ==
  /\ RetryCountBounded
  /\ failures <= MaxRetries + 1
  /\ \A i \in Inst : \A id \in exhausted[i] :
       Handled(i, id) =>
         /\ id \notin PendingIds(i)
         /\ id \notin DOMAIN storage
         /\ outcome[i][id] = Rejected(Transient)


\* C7: every call of the mutation function for a transaction id is given the
\* idempotencyKey assigned when the draft was committed: on the first attempt,
\* on every retry and on every replay after a handover.
C7_IdempotencyKeyStable ==
  \A id \in TxIds : keysSeen[id] \subseteq {IdemKey(id)}

\* C7 witness: the mutation function is called for a transaction that failed
\* once and was then loaded from storage by the replay that follows a loss
\* and return of leadership: the scheduler holds the retried entry and the
\* replayed one.
C7_Witness ==
  \E i \in Inst :
    /\ drain[i].pc = "mutation"
    /\ drain[i].tx.retryCount >= 1
    /\ handovers >= 1
    /\ isLeaderState[i]
    /\ initialize[i] = "requesting"
    /\ \E k, l \in 1..Len(pendingTransactions[i]) :
         /\ k < l
         /\ pendingTransactions[i][k].id = drain[i].tx.id
         /\ pendingTransactions[i][l].id = drain[i].tx.id
         /\ pendingTransactions[i][k].retryCount >= 1
         /\ pendingTransactions[i][l].retryCount >= 1
    /\ keysSeen[drain[i].tx.id] # {}

C10_OnlyLeaderStarts ==
  [][\A i \in Inst : Started(i) => leader' = i]_vars


\* C8: on a leader, persist(tx) queues durably before it executes: tx is
\* scheduled by persist only after outbox.add(tx) has completed, so a
\* transaction that is pending or running because of persist has an entry in
\* storage at every moment.
C8_PersistedWhilePending ==
  \A i \in Inst : \A id \in viaPersist[i] :
    /\ \A tx \in persisting[i] : tx.id # id
    /\ (id \in PendingIds(i) \/ (drain[i].pc = "mutation" /\ drain[i].tx.id = id))
         => id \in DOMAIN storage

\* C8 amended: on a leader, persist(tx) schedules tx, and so lets the mutation
\* function be called for it, only after outbox.add(tx) has completed; the
\* entry need not stay in storage while tx is pending or running.
C8_AddBeforeExecute ==
  \A i \in Inst : \A id \in viaPersist[i] :
    \A tx \in persisting[i] : tx.id # id

\* C8 witness: a transaction scheduled by persist is running, its add has
\* completed and its entry is in storage.
C8_Witness ==
  \E i \in Inst : \E id \in viaPersist[i] :
    /\ drain[i].pc = "mutation" /\ drain[i].tx.id = id
    /\ persisting[i] = {}
    /\ id \in DOMAIN storage

\* The ids of the transactions read by the outbox.getAll() calls of instance i
\* that loadPendingTransactions has still to process.
Acquired(i) ==
  UNION {{loading[i][k][j].id : j \in 1..Len(loading[i][k])} :
           k \in 1..Len(loading[i])}

\* C11 (first half): when the replay that follows an acquisition of
\* leadership has read the Outbox, every transaction it read that beforeRetry
\* keeps is in the Scheduler with nextAttemptAt equal to the present time.
C11_Scheduled ==
  [][\A i \in Inst :
       Len(loading'[i]) < Len(loading[i]) =>
         \A id \in LoadedNow(i) \cap beforeRetry :
           \E k \in 1..Len(pendingTransactions'[i]) :
             /\ pendingTransactions'[i][k].id = id
             /\ pendingTransactions'[i][k].nextAttemptAt = now]_vars

\* C11 (second half): such a transaction, its mutation function succeeding
\* in the end, is eventually removed from the Outbox.
C11_Removed ==
  \A i \in Inst : \A id \in TxIds :
    (id \in Acquired(i) /\ id \in beforeRetry) ~> (id \notin DOMAIN storage)

\* C11: replay on leadership acquisition, at construction and after a
\* handover, for transactions persisted by an instance that has stopped.
C11_ReplayOnAcquisition == C11_Scheduled /\ C11_Removed

C11_Witness ==
  /\ handovers >= 1
  /\ failures >= 1
  /\ "t1" \in succeeded["A"]
  /\ isLeaderState["A"]
  /\ DOMAIN storage = {}

\* C12: the waiter of a transaction that an instance persisted as leader and
\* that was unfinished when the instance lost leadership is settled in one
\* way only: resolved with undefined.
C12_WaiterResolvedOnLoss ==
  \A i \in Inst : \A id \in lostPending[i] :
    outcome[i][id] \in {Waiting, Resolved(Undefined)}

Settled(i, id) == outcome[i][id].kind \in {"resolved", "rejected"}

\* C13 (how): a waiter is resolved only after a success of its transaction (or
\* at a submission by a non-leader), rejected only with the error of the
\* permanent failure, and it is settled once a permanent failure is handled.
C13_HowSettled ==
  \A i \in Inst : \A id \in TxIds :
    /\ outcome[i][id].kind = "resolved" =>
         id \in succeeded[i] \cup nonLeaderPersist[i]
    /\ outcome[i][id].kind = "rejected" =>
         \/ outcome[i][id] = Rejected(NonRetriable) /\ id \in permanent[i]
         \/ outcome[i][id] = Rejected(Transient) /\ id \in exhausted[i]
    /\ (id \in permanent[i] \cup exhausted[i] /\ Handled(i, id)) =>
         outcome[i][id] # Waiting

\* C13: on an instance that stays leader and is neither disposed nor cleared,
\* with every call of the mutation function terminating, every waiter that is
\* registered is eventually settled, and settled as the outcome of its
\* transaction says.
C13_WaiterLiveness ==
  /\ \A i \in {"A"} : \A id \in {"t1"} :
       (outcome[i][id] = Waiting) ~> Settled(i, id)
  /\ []C13_HowSettled

C13_Witness ==
  /\ "t1" \in exhausted["A"]
  /\ failures >= MaxRetries + 1
  /\ outcome["A"]["t1"] = Rejected(Transient)
  /\ isLeaderState["A"]

\* C14: on an instance whose initial requestLeadership() has resolved true
\* and that still holds leadership, isOfflineEnabled is true at a submission:
\* the transaction is written to the Outbox and handed to the executor.
C14_LeaderPersists ==
  [][\A i \in Inst : \A id \in TxIds :
       ( /\ initialize[i] = "done"
         /\ leader = i
         /\ id \in drafts
         /\ id \notin drafts'
         /\ outcome'[i][id] # outcome[i][id] )
       => /\ isLeaderState[i]
          /\ id \in DOMAIN storage'
          /\ \E tx \in persisting'[i] : tx.id = id]_vars

UnknownIds(i) ==
  {id \in TxIds : unknownCalls[i][id] > 0}

\* C15: for a transaction whose mutationFnName is not registered,
\* onUnknownMutationFn is called once and no more, no mutation function is
\* invoked, and once the failure is handled the transaction is in neither
\* the Scheduler nor the Outbox and is not executed again.
C15_UnknownMutationFn ==
  \A i \in Inst : \A id \in UnknownIds(i) :
    /\ unknownCalls[i][id] = 1
    /\ keysSeen[id] = {}
    /\ Handled(i, id) => (id \notin PendingIds(i) /\ id \notin DOMAIN storage)

\* The number of Scheduler entries with the id.
Scheduled(pending, id) ==
  Cardinality({k \in 1..Len(pending) : pending[k].id = id})

\* C16: when loadPendingTransactions has read the Outbox, the transactions
\* beforeRetry returns, and no others, are added to the Scheduler, and every
\* transaction it drops is deleted from the Outbox; a transaction that has
\* been dropped is not passed to a mutation function.
C16_BeforeRetryApplied ==
  [][\A i \in Inst :
       /\ Len(loading'[i]) < Len(loading[i]) =>
            /\ \A id \in LoadedNow(i) \cap beforeRetry :
                 Scheduled(pendingTransactions'[i], id)
                   = Scheduled(pendingTransactions[i], id) + 1
            /\ \A id \in TxIds \ (LoadedNow(i) \cap beforeRetry) :
                 Scheduled(pendingTransactions'[i], id)
                   = Scheduled(pendingTransactions[i], id)
            /\ \A id \in LoadedNow(i) \ beforeRetry : id \notin DOMAIN storage'
       /\ Started(i) => drain'[i].tx.id \notin dropped[i]]_vars

\* C17: once dispose() has returned on an instance, no invocation of a
\* mutation function begins on it.
C17_NoStartAfterDispose ==
  [][\A i \in Inst : disposed[i] => ~Started(i)]_vars

\* C18: once dispose() has returned on an instance, none of its waiters is
\* resolved or rejected.
C18_NoSettleAfterDispose ==
  [][\A i \in Inst : disposed[i] => outcome'[i] = outcome[i]]_vars

\* clearOutbox() has completed on instance i and no other call of it is
\* under way.
Cleared(i) == clearCalls = {} /\ clearing[i].pc = "idle"

\* A continuation of the drain of instance i: the mutation call in flight
\* returns or throws, or an Outbox call of the drain returns.
DrainContinues(i) ==
  /\ drainPc[i] # "idle"
  /\ drain'[i] # drain[i]
  /\ persisting' = persisting
  /\ loading' = loading

\* C19: when clearOutbox() completes, the Outbox holds none of the entries it
\* found, the Scheduler is empty and no retry timer is armed; afterwards the
\* completion of a call that was in flight creates no Outbox entry and adds
\* nothing to the Scheduler.
C19_ClearIsFinal ==
  [][\A i \in Inst :
       /\ (clearing[i].pc = "deletes" /\ clearing'[i].pc = "idle") =>
            /\ \A id \in clearing[i].keys : id \notin DOMAIN storage'
            /\ pendingTransactions'[i] = <<>>
            /\ retryTimer'[i] = NoTimer
       /\ (Cleared(i) /\ DrainContinues(i)) =>
            /\ DOMAIN storage' \subseteq DOMAIN storage
            /\ PendingIds(i)' \subseteq PendingIds(i)]_vars

\* C20: the registry holds one deferred per id, pending exactly while the id
\* is in the map; a waitForTransactionCompletion for an id in the map makes
\* no new deferred; resolveTransaction and rejectTransaction settle the
\* deferred of an id in the map and take the id out, and change nothing for
\* an id that is not in the map.
C20_OneDeferredPerId ==
  [][\A i \in Inst : \A id \in TxIds :
       /\ (id \in pendingTransactionPromises[i]) <=> (outcome[i][id] = Waiting)
       /\ id \in pendingTransactionPromises[i] =>
            /\ created'[i][id] = created[i][id]
            /\ \/ outcome'[i][id] = outcome[i][id]
               \/ /\ Settled(i, id)'
                  /\ id \notin pendingTransactionPromises'[i]
       /\ id \notin pendingTransactionPromises[i] =>
            \/ /\ outcome'[i][id] = outcome[i][id]
               /\ created'[i][id] = created[i][id]
               /\ id \notin pendingTransactionPromises'[i]
            \/ /\ outcome'[i][id] = Waiting
               /\ created'[i][id] = created[i][id] + 1
               /\ id \in pendingTransactionPromises'[i]]_vars

C20_Witness ==
  /\ created["A"]["t1"] = MaxCreated
  /\ outcome["A"]["t1"] = Resolved("ok1")
  /\ outcome["A"]["t2"] = Rejected(Transient)
  /\ pendingTransactionPromises["A"] = {}
\* The drain of instance i is at work: a mutation call or a storage call of
\* its loop is in flight.
DrainAtWork(i) == drain[i].pc \notin {"idle", "finally"}

\* C21: a connectivity notification delivered to an instance whose
\* isOfflineEnabled is true sets nextAttemptAt of every pending transaction to
\* now and changes nothing else of the pending list (retryCount, lastError
\* and the order stay), and a drain is at work afterwards whenever something
\* is pending; delivered to an instance that is not leader it changes nothing
\* and starts no drain.
C21_OnlineResets ==
  [][\A i \in Inst :
       notified'[i] # notified[i] =>
         IF isLeaderState[i]
         THEN /\ Len(pendingTransactions'[i]) = Len(pendingTransactions[i])
              /\ \A k \in 1..Len(pendingTransactions[i]) :
                   pendingTransactions'[i][k] =
                     [pendingTransactions[i][k] EXCEPT !.nextAttemptAt = now]
              /\ pendingTransactions'[i] # <<>> => DrainAtWork(i)'
         ELSE /\ pendingTransactions'[i] = pendingTransactions[i]
              /\ isExecuting'[i] = isExecuting[i]
              /\ drain'[i] = drain[i]
              /\ retryTimer'[i] = retryTimer[i]
              /\ storage' = storage]_vars
\* C22: a failure of the mutation function or of a storage call during a
\* drain never makes the drain's promise reject (what executeAll hands to the
\* timer, connectivity and leadership callbacks is fulfilled), and the
\* Scheduler's running flag is set only while a mutation call is in flight:
\* it is released by the time the failure is being handled.
C22_DrainErrorsContained ==
  \A i \in Inst :
    /\ drain[i].pc = "finally" => drain[i].error = NoError
    /\ isRunning[i] => drain[i].pc = "mutation"

\* outbox.remove has thrown after the successful call of t1, handleError has
\* written t1 back with retryCount 1, and a later turn of the drain has
\* started t2.
C22_Witness ==
  /\ "t1" \in succeeded["A"]
  /\ "t1" \in DOMAIN storage
  /\ storage["t1"].retryCount = 1
  /\ drain["A"].pc = "mutation"
  /\ drain["A"].tx.id = "t2"

\* C23: when outbox.add throws in a persist on the leader, commit gets the
\* storage error, the transaction is not in the Outbox, it is not scheduled
\* and its mutation function is never called.
C23_AddFailurePropagates ==
  \A i \in Inst : \A id \in TxIds :
    persistThrew[i][id] # NoError =>
      /\ persistThrew[i][id] = StorageError
      /\ id \notin DOMAIN storage
      /\ id \notin PendingIds(i)
      /\ id \notin viaPersist[i]
      /\ keysSeen[id] = {}

\* The commit of t1 has failed with the storage error, and the instance has
\* gone on to run t2.
C23_Witness ==
  /\ persistThrew["A"]["t1"] = StorageError
  /\ "t2" \in succeeded["A"]
\* C24: what getAll returns is sorted ascending by createdAt whatever the
\* order of the keys, holds no id twice, and is made of the entries under
\* tx: keys that deserialize, all of them and nothing else: other keys are
\* ignored and an entry that does not deserialize is skipped.
C24_GetAllSortedDistinct ==
  LET result == peeked.result
      ids == TransactionKeys(peeked.keys)
      valid == {id \in DOMAIN peeked.store : ValidEnvelope(peeked.store[id])}
  IN /\ \A j, k \in 1..Len(result) :
          j < k => result[j].createdAt <= result[k].createdAt
     /\ \A j, k \in 1..Len(result) : result[j].id = result[k].id => j = k
     /\ {result[k].id : k \in 1..Len(result)} = valid
     /\ \A k \in 1..Len(result) :
          result[k] = Deserialize(peeked.store[result[k].id])
     /\ Len(ids) = Cardinality(DOMAIN peeked.store)

\* getAll was handed the key of another user of the storage and then the
\* keys of two entries that deserialize, the later created one first.
C24_Witness ==
  /\ Len(peeked.keys) = 3
  /\ peeked.keys[1][1] # KeyPrefix
  /\ Len(peeked.result) = 2
  /\ peeked.store[peeked.keys[2][2]].createdAt[2]
       > peeked.store[peeked.keys[3][2]].createdAt[2]
\* C25: in every reachable state an id appears at most once in the
\* Scheduler's pending list.
C25_IdAtMostOnce ==
  \A i \in Inst : \A id \in TxIds : Scheduled(pendingTransactions[i], id) <= 1

\* C26: in every reachable state the Scheduler's pending list is sorted
\* ascending by createdAt, so that its head is the oldest-created pending
\* transaction.
C26_PendingSorted ==
  \A i \in Inst :
    LET pending == pendingTransactions[i]
    IN \A j, k \in 1..Len(pending) :
         j < k => pending[j].createdAt <= pending[k].createdAt

\* t1 was created before t2 and scheduled after it (by a replay that read it
\* before t2 was committed); t1 has failed once, a connectivity notification
\* has reset its delay, and it is at the head of the list.
C26_Witness ==
  LET pending == pendingTransactions["A"]
  IN /\ Len(pending) = 2
     /\ pending[1].id = "t1" /\ pending[2].id = "t2"
     /\ pending[1].createdAt < pending[2].createdAt
     /\ "t2" \in viaPersist["A"] /\ "t1" \notin viaPersist["A"]
     /\ pending[1].retryCount = 1
     /\ notified["A"] = 1
     /\ pending[1].nextAttemptAt < pending[1].createdAt + BaseDelay
\* C27: an executeAll() made while a drain is in flight starts no second
\* loop (the drain stays where it is suspended and no further mutation call
\* is started), and an executeAll() made when the drain has ended starts a
\* fresh drain, which is at work when something is pending. The calls looked
\* at are those of the connectivity listener of a leader.
C27_ExecuteAllCollapses ==
  [][\A i \in Inst :
       (notified'[i] # notified[i] /\ isLeaderState[i]) =>
         /\ isExecuting'[i]
         /\ IF DrainAtWork(i)
            THEN drain'[i] = drain[i] /\ inflight' = inflight
            ELSE pendingTransactions'[i] # <<>> => DrainAtWork(i)']_vars
\* C28: at most one wake timer is armed at any time, and it is the one the
\* executor holds the handle of; executor.clear() leaves none armed.
C28_OneWakeTimer ==
  /\ [](\A i \in Inst :
          /\ armedTimers[i] \in {0, 1}
          /\ (armedTimers[i] = 1) = (retryTimer[i] # NoTimer))
  /\ [][\A i \in Inst :
          (clearing[i].pc = "deletes" /\ clearing'[i].pc = "idle") =>
            armedTimers'[i] = 0]_vars

\* t1 has failed and waits for its retry, t2 has been carried out, and the
\* drain has ended: one timer is armed, for t1's nextAttemptAt.
C28_Witness ==
  LET pending == pendingTransactions["A"]
  IN /\ Len(pending) = 1
     /\ pending[1].id = "t1" /\ pending[1].retryCount = 1
     /\ "t2" \in succeeded["A"]
     /\ drain["A"].pc = "idle"
     /\ armedTimers["A"] = 1
     /\ retryTimer["A"] = pending[1].nextAttemptAt
     /\ pending[1].nextAttemptAt = BaseDelay
\* C29: whenever the Scheduler of an instance holds a pending transaction and
\* no drain is in flight (executeAll's guard is free), a wake timer is armed,
\* and it fires no later than the earliest nextAttemptAt, or at once when
\* that time has passed.
C29_PendingHasWakeUp ==
  \A i \in Inst :
    (pendingTransactions[i] # <<>> /\ ~isExecuting[i]) =>
      /\ retryTimer[i] # NoTimer
      /\ retryTimer[i] <= Max2(now, GetEarliestRetryTime(S(i)))
\* C30: when a call for a transaction with retryCount n fails and is to be
\* retried, the Scheduler holds the transaction with retryCount n + 1, the
\* error as lastError and nextAttemptAt = now + min(60000, 1000 * 2^n); the
\* write of outbox.update leaves the same record in the Outbox; and while
\* the Scheduler holds the record as the Outbox has it (no reset of the retry
\* delays has touched it, the step that starts the call included), a call for
\* the transaction is started only when the recorded nextAttemptAt has been
\* reached.
C30_RetryBookkeeping ==
  [][\A i \in Inst :
       LET tx == drain[i].tx
           n == tx.retryCount
           expected == [tx EXCEPT !.retryCount = n + 1,
                                  !.lastError = drain'[i].error,
                                  !.nextAttemptAt =
                                    now + Min2(60000, 1000 * Pow2(n))]
           started == drain'[i].tx
       IN /\ (drain[i].pc = "mutation" /\ drain'[i].pc = "updateGet") =>
               /\ drain'[i].error # NoError
               /\ \E k \in 1..Len(pendingTransactions'[i]) :
                    pendingTransactions'[i][k] = expected
               /\ drain'[i].updated = expected
          /\ (drain[i].pc = "updateGet" /\ drain'[i].pc # "updateGet") =>
               /\ drain'[i].pc = "updateAdd"
               /\ tx.id \in DOMAIN storage'
               /\ Deserialize(storage'[tx.id]) = drain[i].updated
          /\ ( /\ inflight'[i] > inflight[i]
               /\ started.id \in DOMAIN storage
               /\ \E k \in 1..Len(pendingTransactions'[i]) :
                    pendingTransactions'[i][k] = Deserialize(storage[started.id]) ) =>
               storage[started.id].nextAttemptAt <= now]_vars
\* C31: whatever concurrency is asked for, getNextBatch returns the empty
\* list when a transaction is running, when nothing is pending and when no
\* pending transaction is ready; otherwise it returns exactly one
\* transaction, a pending one with nextAttemptAt <= now that no other ready
\* one precedes in createdAt.
C31_GetNextBatch ==
  \A i \in Inst : \A maxConcurrency \in 1..MaxConcurrency :
    LET pending == pendingTransactions[i]
        batch == GetNextBatch(S(i), maxConcurrency, now)
        ready == {k \in 1..Len(pending) : pending[k].nextAttemptAt <= now}
    IN IF isRunning[i] \/ pending = <<>> \/ ready = {}
       THEN batch = <<>>
       ELSE /\ Len(batch) = 1
            /\ \E k \in ready :
                 /\ batch[1] = pending[k]
                 /\ \A j \in ready : pending[k].createdAt <= pending[j].createdAt

\* Nothing is running, two transactions are ready and an older one before
\* them is not: the batch is the first of the two.
C31_Witness ==
  LET pending == pendingTransactions["A"]
  IN /\ ~isRunning["A"]
     /\ Len(pending) = 3
     /\ pending[1].nextAttemptAt > now
     /\ pending[2].nextAttemptAt <= now /\ pending[3].nextAttemptAt <= now
     /\ GetNextBatch(S("A"), MaxConcurrency, now) = <<pending[2]>>
\* The place of an id in lexicographic order.
IdRank(id) == IF id = "t1" THEN 1 ELSE 2

TiesById(seq) ==
  \A j, k \in 1..Len(seq) :
    (j < k /\ seq[j].createdAt = seq[k].createdAt) =>
      IdRank(seq[j].id) <= IdRank(seq[k].id)

\* C32: transactions with the same createdAt stand in lexicographic order of
\* their ids, in the Scheduler's pending list and in what getAll returned.
C32_TiesBrokenById ==
  /\ \A i \in Inst : TiesById(pendingTransactions[i])
  /\ TiesById(peeked.result)
\* C33: when getAll has returned, every entry under a tx: key that is left in
\* storage is a valid envelope.
C33_GetAllPrunes ==
  [][peeked' # peeked =>
       \A id \in DOMAIN storage' : ValidEnvelope(storage'[id])]_vars
\* C34: an update whose read found no entry that deserializes fails with the
\* not-found error and writes nothing; an update whose read found one leaves
\* under the id the record read with the fields of the patch replaced, and
\* every other entry as it was; an add leaves under the id the transaction
\* added, whatever was there, and every other entry as it was.
C34_UpdateAndAdd ==
  LET c == outboxCall
      others == (DOMAIN c.before \cup DOMAIN c.after) \ {c.id}
      othersKept ==
        \A id \in others :
          id \in DOMAIN c.before /\ id \in DOMAIN c.after
            /\ c.after[id] = c.before[id]
      merged == [f \in DOMAIN c.existing |->
                   IF f \in DOMAIN c.arg THEN c.arg[f] ELSE c.existing[f]]
  IN c.pc = "done" =>
       /\ (c.op = "update" /\ ~c.found) =>
            c.threw = NotFound /\ c.after = c.before
       /\ (c.op = "update" /\ c.found) =>
            /\ c.threw = NoError
            /\ c.id \in DOMAIN c.after
            /\ Deserialize(c.after[c.id]) = merged
            /\ othersKept
       /\ c.op = "add" =>
            /\ c.threw = NoError
            /\ c.id \in DOMAIN c.after
            /\ c.after[c.id] = Serialize(c.arg)
            /\ othersKept

\* An update of t1 found nothing that deserializes under tx:t1, where an
\* entry of another version lies, and has thrown; t2's entry is there.
C34_Witness ==
  /\ outboxCall.pc = "done" /\ outboxCall.op = "update"
  /\ outboxCall.id = "t1" /\ ~outboxCall.found
  /\ outboxCall.threw = NotFound
  /\ "t1" \in DOMAIN storage /\ ~ValidEnvelope(storage["t1"])
  /\ "t2" \in DOMAIN storage
\* C35: in a state where no pending transaction is ready (nextAttemptAt > now
\* for each, or nothing pending), executeAll() starts no mutation call and
\* leaves the pending list, the Outbox and the waiters as they are; when no
\* drain is in flight it arms the one wake timer for the earliest
\* nextAttemptAt (none when nothing is pending), and a second executeAll()
\* after the first has ended gives the same state again.
C35_ExecuteAllIdempotent ==
  \A i \in Inst :
    LET s == S(i)
        pending == pendingTransactions[i]
        once == ExecuteAll(s, now)
        ended == ExecuteAllFinally(once)
        again == ExecuteAllFinally(ExecuteAll(ended, now))
        same(r) == /\ r.pendingTransactions = pending
                   /\ r.storage = storage
                   /\ r.inflight = inflight[i]
                   /\ r.keysSeen = keysSeen
                   /\ r.promises = pendingTransactionPromises[i]
                   /\ r.outcome = outcome[i]
    IN (\A k \in 1..Len(pending) : pending[k].nextAttemptAt > now) =>
         /\ same(once)
         /\ ~isExecuting[i] =>
              /\ once.retryTimer =
                   (IF pending = <<>> THEN NoTimer
                    ELSE Min({pending[k].nextAttemptAt : k \in 1..Len(pending)}))
              /\ once.armedTimers = (IF pending = <<>> THEN 0 ELSE 1)
              /\ same(again)
              /\ again = ended

\* No drain is in flight and t1 waits for its retry after a failure, with the
\* wake timer armed for its nextAttemptAt.
C35_Witness ==
  LET pending == pendingTransactions["A"]
  IN /\ ~isExecuting["A"]
     /\ Len(pending) = 1
     /\ pending[1].retryCount = 1
     /\ pending[1].nextAttemptAt > now
     /\ retryTimer["A"] = pending[1].nextAttemptAt
\* The drain of instance i is at a storage call of the Outbox that has thrown:
\* handleError's own call (outbox.update, or outbox.remove of a permanent
\* failure), or it is handling the error thrown by the outbox.remove that
\* followed a successful call.
StorageFailedInDrain(i) ==
  drain[i].pc = "threw" \/ drain[i].error = StorageError

\* C36: when an Outbox storage call has failed during a drain, the step that
\* resumes the drain after the failure starts no further mutation call: the
\* drain cycle ends there.
C36_StorageFailureEndsDrain ==
  [][\A i \in Inst : StorageFailedInDrain(i) => ~Started(i)]_vars
\* The fields of a transaction that are set when it is created.
CreationFields ==
  {"id", "idempotencyKey", "mutationFnName", "mutations", "keys", "metadata",
   "createdAt"}
CreationPart(tx) == [f \in CreationFields |-> tx[f]]

\* C37: no step changes id, idempotencyKey, mutationFnName, mutations, keys,
\* metadata or createdAt of a transaction: an entry of the Scheduler's pending
\* list has after the step the values that the Scheduler's entries of that id
\* and the Outbox's entry of that id had before it, and an Outbox entry that
\* is written over keeps them; handleError, resetRetryDelays and
\* loadPendingTransactions write retryCount, nextAttemptAt and lastError only.
C37_OnlyRetryFieldsMutated ==
  [][\A i \in Inst :
       /\ \A k \in 1..Len(pendingTransactions'[i]) :
            LET after == pendingTransactions'[i][k]
            IN /\ \A j \in 1..Len(pendingTransactions[i]) :
                    pendingTransactions[i][j].id = after.id =>
                      CreationPart(after) = CreationPart(pendingTransactions[i][j])
               /\ after.id \in DOMAIN storage =>
                    CreationPart(after) =
                      CreationPart(Deserialize(storage[after.id]))
       /\ \A id \in DOMAIN storage \cap DOMAIN storage' :
            CreationPart(storage'[id]) = CreationPart(storage[id])]_vars

\* t2 was created later than t1; t1 has failed once, handleError has written
\* it to the Scheduler and to the Outbox, and a reset of the retry delays has
\* made it ready again before its delay was over.
C37_Witness ==
  /\ \E k \in 1..Len(pendingTransactions["A"]) :
       /\ pendingTransactions["A"][k].id = "t1"
       /\ pendingTransactions["A"][k].retryCount = 1
       /\ pendingTransactions["A"][k].lastError = Transient
       /\ pendingTransactions["A"][k].nextAttemptAt < BaseDelay
  /\ "t1" \in DOMAIN storage
  /\ storage["t1"].retryCount = 1
  /\ storage["t1"].lastError = Transient
  /\ "t2" \in DOMAIN storage
  /\ storage["t2"].createdAt # storage["t1"].createdAt
\* C38: on one instance every transaction of the Scheduler's pending list has
\* an entry in the Outbox, in every state reached by persist, drains, retries
\* and removeFromOutbox; and so a mutation function is only ever called for a
\* transaction that the Outbox holds: one removed with removeFromOutbox
\* before it was started is not passed to a mutation function.
C38_PendingStored ==
  [][\A i \in Inst :
       /\ \A k \in 1..Len(pendingTransactions'[i]) :
            pendingTransactions'[i][k].id \in DOMAIN storage'
       /\ Started(i) => drain'[i].tx.id \in DOMAIN storage']_vars
\* The drain of instance i awaits the outbox.remove that follows a mutation
\* call that returned.
AwaitsRemoveAfterSuccess(i) == drain[i].pc \in {"remove", "removeThrows"}

\* handleError is at work for the transaction of id.
InHandleError(d, id) ==
  d.tx.id = id /\ d.pc \in {"updateGet", "updateAdd", "removePermanent", "threw"}

\* C39: the retry path is entered only for a failed mutation call. When the
\* outbox.remove that follows a successful call has settled, whether it
\* returned or threw, handleError is not entered for the transaction (no
\* retryCount is incremented, no lastError set, nothing written back to the
\* Outbox) and its waiter, if one is registered, is resolved.
C39_SuccessNeverRetried ==
  [][\A i \in Inst :
       AwaitsRemoveAfterSuccess(i) /\ drain'[i] # drain[i] =>
         LET id == drain[i].tx.id
         IN /\ ~InHandleError(drain'[i], id)
            /\ id \in pendingTransactionPromises[i] =>
                 outcome'[i][id].kind = "resolved"]_vars
====
